---- MODULE Spec2Model ----
(***************************************************************************)
(* Operator console of the teleoperated car (smilesmith9879/GMAP):         *)
(* Socket.IO session (static/js/main.js), joystick control channels        *)
(* (static/js/joystick.js), status refresh (status.js) and the page-level  *)
(* handlers (mobile.js), the video feed (static/js/video.js), the maps     *)
(* (map.js), the status and sensor indicators (status.js) and the          *)
(* notifications of showNotification.  All handlers run to completion on   *)
(* the browser's event loop, so every handler is one action.               *)
(*                                                                         *)
(* Numbers.  Joystick axes are floats in [-1,1] in the code.  They are     *)
(* kept here as integers in units of 1/Unit, Unit = 50 * 1000: a raw       *)
(* distance is an integer number of pixels and cos/sin are tabulated in    *)
(* thousandths, so (min(d,50)/50)*cos(angle) is min(d,50)*cosMilli exactly.*)
(* Time is in milliseconds.                                                *)
(***************************************************************************)
EXTENDS Integers, Sequences, FiniteSets, TLC

VARIABLES
    now,                \* milliseconds since page load, performance.now()
    conn,               \* state of the Socket.IO transport behind `socket`
    attempts,           \* reconnection attempts made by the transport in this cycle
    isConnected,        \* main.js:8
    reconnectAttempts,  \* main.js:9
    movementX,          \* joystick.js:11
    movementY,          \* joystick.js:12
    cameraX,            \* joystick.js:13
    cameraY,            \* joystick.js:14
    moveLastCall,       \* lastCall of the throttle closure around the movement move handler
    camLastCall,        \* lastCall of the throttle closure around the camera move handler
    orientTimers,       \* deadlines of the pending orientationchange timeouts (mobile.js:29)
    statusTimers,       \* deadlines of the pending status refresh timeouts (status.js connect handler)
    fetches,            \* GET /api/status requests in flight
    statusShown,        \* what the status indicators display
    isStreaming,        \* video.js:10
    frameCount,         \* video.js:11
    lastFpsUpdateTime,  \* video.js:12
    fps,                \* video.js:13
    videoSrc,           \* videoFeed.src: the displayed frame
    raised,             \* whether the last video_frame handler run ended with an uncaught exception
    out,                \* events handed to the server by the last step, in order
    sendBuffer,         \* events held by the socket for delivery on the next connect
    posted,             \* notifications posted by the last step, in order
    lastEvent,          \* the input the last step handled
    ticks,              \* number of clock steps taken
    observed,           \* the history variables this specification records
    link,               \* history: "initial", "lost" after a disconnect, "restored" after the reconnect
    lastMoveCmd,        \* history: Date.now() of the last joystick_movement sent for a gesture sample
    lastActivity,       \* history: time of the last inbound channel activity
    cameraEnd,          \* history: the last camera gesture end, and whether a gesture followed
    staleOnly,          \* history: a video_error arrived and every frame since was produced before it
    evenFrames,         \* history: evenly spaced frames of the current FPS window (see EvenSoFar)
    statusScript,       \* page: which of the two versions of status.js the page loads
    map2dCanvas,        \* page: map.js:7, whether initMap2D found #map-2d and created the canvas
    map3dScene,         \* page: map.js:8, whether initMap3D found #map-3d and created the scene
    sensorPanel,        \* page: whether the accel-*, gyro-* and orientation-* elements exist
    map2dShown,         \* what the 2D canvas shows: <<kind, image payload>>
    map2dLoading,       \* payloads of the Image objects of updateMap2D still being decoded
    map2dRobot,         \* the vehicle indicator drawn on the 2D canvas
    map3dPoints,        \* map.js:10, positions of the point meshes in the scene
    robotModel,         \* map.js:11, pose of the vehicle model in the scene
    sensorShown,        \* what the IMU indicators display
    sensorRaised,       \* whether the last sensor_data handler run ended with an uncaught exception
    toasts,             \* the notifications in the #notifications container, newest first
    videoScript,        \* page: which of the two versions of video.js the page loads
    videoTimers,        \* deadlines of the pending reconnect timeouts of the other video.js
    statusRaised,       \* whether the last status_update handler run ended with an uncaught exception
    movementJoysticks,  \* live nipplejs instances on #movement-joystick, each with its handlers
    cameraJoysticks,    \* live nipplejs instances on #camera-joystick, each with its handlers
    prevCloud,          \* history: number of 3D points rendered before the last map_3d was applied
    paneDropped         \* history: entries the last status_update removed from #notifications

vars == <<now, conn, attempts, isConnected, reconnectAttempts,
          movementX, movementY, cameraX, cameraY, moveLastCall, camLastCall,
          orientTimers, statusTimers, fetches, statusShown,
          isStreaming, frameCount, lastFpsUpdateTime, fps, videoSrc,
          out, sendBuffer, posted, lastEvent, ticks, observed,
          link, lastMoveCmd, lastActivity, cameraEnd,
          raised, staleOnly, evenFrames,
          statusScript, map2dCanvas, map3dScene, sensorPanel,
          map2dShown, map2dLoading, map2dRobot, map3dPoints, robotModel,
          sensorShown, sensorRaised, toasts,
          videoScript, videoTimers, statusRaised, movementJoysticks, cameraJoysticks,
          prevCloud, paneDropped>>

----------------------------------------------------------------------------
(* Program constants *)

maxReconnectAttempts == 10          \* main.js:10
movementThrottleInterval == 50      \* joystick.js:17
cameraThrottleInterval == 100       \* joystick.js:18
MaxDistance == 50                   \* joystick.js:45, joystick.js:95
OrientationDelay == 300             \* mobile.js:51
StatusRefreshDelay == 1000          \* status.js:43
PanDefault == 80                    \* joystick.js:105
PanRange == 45                      \* joystick.js:105
TiltDefault == 40                   \* joystick.js:106
TiltRange == 40                     \* joystick.js:106
KeepaliveTimeout == 60000           \* main.js:32
NotificationDuration == 5000        \* main.js:223
FadeDuration == 150                 \* main.js:222
MapScale == 20                      \* map.js:358-359
VideoReconnectDelay == 1000         \* the other video.js (part_001:87)
AutoCenterDelay == 5 * 1000         \* the delay the camera channel is specified to wait; joystick.js arms no timer

(* Bounds of the model *)

StartTime == 1000       \* Date.now() at page load; any value >= both throttle intervals
MaxTicks == 2           \* number of clock steps explored
FineStep == 25          \* a clock step shorter than both throttle intervals
MaxPending == 2         \* pending timers / requests in flight kept at once
MaxFrames == 2          \* frames counted within one FPS window
MaxWindowFrames == 20   \* the same where whole FPS windows are explored
FpsHorizon == 1200      \* how far the clock of the FPS measurement runs
MaxToasts == 2          \* notifications on display at once
NotifyHorizon == 16000  \* how far the clock runs where notifications are followed

Unit == MaxDistance * 1000

Abs(v) == IF v < 0 THEN -v ELSE v
Min(a, b) == IF a < b THEN a ELSE b

\* Math.round: the nearest integer, halves towards +infinity, of num/den (den > 0)
Round(num, den) == (2 * num + den) \div (2 * den)

----------------------------------------------------------------------------
(* Gesture samples: nipplejs reports data.distance and data.angle.radian *)

\* cos and sin of the sampled angles, in thousandths
Cos(a) == CASE a = "E"   -> 1000      \* 0 rad
            [] a = "N"   -> 0         \* pi/2
            [] a = "W"   -> -1000     \* pi
            [] a = "S"   -> 0         \* 3*pi/2
            [] a = "NE"  -> 707       \* pi/4
            [] a = "ENE" -> 999       \* 0.035 rad
Sin(a) == CASE a = "E"   -> 0
            [] a = "N"   -> 1000
            [] a = "W"   -> 0
            [] a = "S"   -> -1000
            [] a = "NE"  -> 707
            [] a = "ENE" -> 35

Sample(d, a) == [distance |-> d, angle |-> a]

\* AxisX without the clamp of the distance to the reference radius
AxisXUnclamped(s) == s.distance * Cos(s.angle)

\* joystick.js:45-50: distance = min(data.distance, 50) / 50; x = distance*cos, y = distance*sin
AxisX(s) == Min(s.distance, MaxDistance) * Cos(s.angle)
AxisY(s) == Min(s.distance, MaxDistance) * Sin(s.angle)

\* Deadzone with the threshold a digit off (0.005)
DeadzoneNarrow(v) == IF Abs(v) * 1000 < 5 * Unit THEN 0 ELSE v

\* joystick.js:53-54: if (Math.abs(v) < 0.05) v = 0
Deadzone(v) == IF Abs(v) * 100 < 5 * Unit THEN 0 ELSE v

\* Tilt with the sign of the deflection reversed
TiltInverted(y) == Round(TiltDefault * Unit + y * TiltRange, Unit)

\* joystick.js:105-106, 111-112
Pan(x)  == Round(PanDefault * Unit + x * PanRange, Unit)
Tilt(y) == Round(TiltDefault * Unit - y * TiltRange, Unit)

----------------------------------------------------------------------------
(* Outbound events *)

Ev(name, a, b) == [ev |-> name, a |-> a, b |-> b]
JoystickMovement(x, y) == Ev("joystick_movement", x, y)
GimbalControl(pan, tilt) == Ev("gimbal_control", pan, tilt)

Note(message, type) == [message |-> message, type |-> type]


\* socket.emit: the packet goes out when the socket is connected, otherwise
\* the socket keeps it in its send buffer and flushes it on the next connect
Sent(evs) == IF conn = "connected" THEN evs ELSE <<>>
Buffered(evs) == IF conn = "connected" THEN sendBuffer ELSE sendBuffer \o evs

----------------------------------------------------------------------------
(* Status samples: the payload of status_update and of GET /api/status *)

Num(v) == [num |-> TRUE, v |-> v]       \* a number, in tenths
NaN == [num |-> FALSE, v |-> 0]         \* missing, or not of type number

\* the notifications field: no field, or a list of messages
NoList == [present |-> FALSE, list |-> <<>>]
List(messages) == [present |-> TRUE, list |-> messages]

StatusData(cpu, mem, temp, f) ==
    [cpu_usage |-> cpu, memory_usage |-> mem, temperature |-> temp, fps |-> f,
     isNull |-> FALSE, notifications |-> NoList]

\* a status payload that is null or undefined
NullStatus == [StatusData(NaN, NaN, NaN, NaN) EXCEPT !.isNull = TRUE]

\* a status payload with a notifications field
WithNotifications(data, ns) == [data EXCEPT !.notifications = ns]

StatusSamples ==
    { StatusData(Num(855), Num(612), Num(455), Num(98)),
      StatusData(Num(304), NaN, Num(705), NaN) }

\* status.js updateStatusDisplay: text and warning classes of one indicator
Indicator(field, danger, old) ==
    LET v == IF field.num THEN field.v ELSE 0
    IN  [text  |-> Round(v, 10),
         class |-> IF v > danger * 10 THEN (old.class \cup {"text-danger"}) \ {"text-warning"}
                   ELSE IF v > 600 THEN (old.class \cup {"text-warning"}) \ {"text-danger"}
                   ELSE old.class \ {"text-warning", "text-danger"}]

updateStatusDisplay(data, shown) ==
    [cpu         |-> Indicator(data.cpu_usage, 80, shown.cpu),
     memory      |-> Indicator(data.memory_usage, 80, shown.memory),
     temperature |-> Indicator(data.temperature, 70, shown.temperature),
     fps         |-> IF data.fps.num THEN Round(data.fps.v, 10) ELSE shown.fps]

\* the text Math.round gives for a value that is missing or not a number
NaNText == -1

\* the earlier version of updateStatusDisplay (part_003:319-360): no type
\* check, and the danger branch leaves the warning class in place
Indicator003(field, danger, old) ==
    [text  |-> IF field.num THEN Round(field.v, 10) ELSE NaNText,
     class |-> IF field.num /\ field.v > danger * 10 THEN old.class \cup {"text-danger"}
               ELSE IF field.num /\ field.v > 600
                    THEN (old.class \cup {"text-warning"}) \ {"text-danger"}
               ELSE old.class \ {"text-warning", "text-danger"}]

updateStatusDisplay003(data, shown) ==
    [cpu         |-> Indicator003(data.cpu_usage, 80, shown.cpu),
     memory      |-> Indicator003(data.memory_usage, 80, shown.memory),
     temperature |-> Indicator003(data.temperature, 70, shown.temperature),
     fps         |-> shown.fps]

\* updateStatusDisplay of the version of status.js the page loads
StatusDisplay(data, shown) ==
    IF statusScript = "part_003" THEN updateStatusDisplay003(data, shown)
    ELSE updateStatusDisplay(data, shown)

InitialIndicator == [text |-> 0, class |-> {}]
InitialStatus ==
    [cpu |-> InitialIndicator, memory |-> InitialIndicator,
     temperature |-> InitialIndicator, fps |-> 0]

----------------------------------------------------------------------------
(* State after DOMContentLoaded *)

----------------------------------------------------------------------------
(* Sensor samples and display: status.js updateSensorDisplay *)

\* a group of a sensor_data sample: three fields, numbers in thousandths
Vec(a, b, c) == [present |-> TRUE, f |-> <<a, b, c>>]
NoVec == [present |-> FALSE, f |-> <<NaN, NaN, NaN>>]

\* is_calibrated is "undefined", "true" or "false"
SensorSample(cal, acc, gyr, ori) ==
    [is_calibrated |-> cal, accelerometer |-> acc, gyroscope |-> gyr, orientation |-> ori]

\* Number.prototype.toFixed(2), in hundredths
ToFixed2(v) == Round(v, 10)

\* the first field of a group that is missing or not a number, else 0
FirstBad(g) ==
    IF \E i \in 1..3 : ~g.f[i].num
    THEN CHOOSE i \in 1..3 : ~g.f[i].num /\ \A j \in 1..(i - 1) : g.f[j].num
    ELSE 0

\* x.toFixed(2) of such a field is a TypeError; it is evaluated only where
\* the element exists
GroupRaises(g) == sensorPanel /\ g.present /\ FirstBad(g) # 0

\* the three elements of a group after its block has run, or has been left
\* by the exception
GroupShown(g, old) ==
    IF sensorPanel /\ g.present
    THEN [i \in 1..3 |-> IF FirstBad(g) = 0 \/ i < FirstBad(g)
                         THEN ToFixed2(g.f[i].v) ELSE old[i]]
    ELSE old

\* status.js:156-195
updateSensorDisplay(data, shown) ==
    LET r1 == GroupRaises(data.accelerometer)
        r2 == GroupRaises(data.gyroscope)
    IN  [imu    |-> IF data.is_calibrated = "undefined" THEN shown.imu
                    ELSE IF data.is_calibrated = "true" THEN "Calibrated"
                    ELSE "Not Calibrated",
         accel  |-> GroupShown(data.accelerometer, shown.accel),
         gyro   |-> IF r1 THEN shown.gyro ELSE GroupShown(data.gyroscope, shown.gyro),
         orient |-> IF r1 \/ r2 THEN shown.orient
                    ELSE GroupShown(data.orientation, shown.orient)]

SensorRaises(data) ==
    \/ GroupRaises(data.accelerometer)
    \/ GroupRaises(data.gyroscope)
    \/ GroupRaises(data.orientation)

InitialSensors ==
    [imu |-> "Not Calibrated", accel |-> <<0, 0, 0>>, gyro |-> <<0, 0, 0>>,
     orient |-> <<0, 0, 0>>]

----------------------------------------------------------------------------
(* Map payloads and display: map.js *)

\* position {x, y} and orientation {yaw} of a map_update; either may be missing
Pose(x, y, yaw) == [position |-> TRUE, orientation |-> TRUE, x |-> x, y |-> y, yaw |-> yaw]
PositionOnly(x, y) ==
    [position |-> TRUE, orientation |-> FALSE, x |-> x, y |-> y, yaw |-> 0]
NoPose == [position |-> FALSE, orientation |-> FALSE, x |-> 0, y |-> 0, yaw |-> 0]

\* map_3d: an array of points <<x, y, z>>, or no field
Cloud(points) == [present |-> TRUE, points |-> points]
NoCloud == [present |-> FALSE, points |-> <<>>]

\* map_2d is the base64 text of a PNG, "" when the field is missing: "m1" and
\* "m2" decode, "corrupt" does not, "short" has fewer than 100 characters
MapData(m2, m3, pose) == [map_2d |-> m2, map_3d |-> m3, pose |-> pose]
TooShort(m2) == m2 = "short"
Decodes(m2) == m2 # "corrupt"

\* map.js:329-330: pointMesh.position.set(point.x, point.z, -point.y)
MeshAt(point) == <<point[1], point[3], -point[2]>>
Meshes(points) == [i \in 1..Len(points) |-> MeshAt(points[i])]

\* updateMap3D that adds the new meshes without removing the old ones
updateMap3DAdding(pointsData, old) == old \o Meshes(pointsData)

\* map.js:311-336: the meshes of the old points are removed from the scene,
\* map3dPoints is emptied, and one mesh per new point is added
updateMap3D(pointsData, old) == Meshes(pointsData)

\* THREE.MathUtils.degToRad, in thousandths of a radian
DegToRad(deg) == Round(deg * 31416, 1800)

\* map.js:346-352: the vehicle model in the scene
ModelAt(pose) == [x |-> pose.x, z |-> -pose.y, yaw |-> DegToRad(pose.yaw)]
InitialModel == [x |-> 0, z |-> 0, yaw |-> 0]

\* map.js:357-377: the indicator on the canvas, as the offset of its dot from
\* the centre of the canvas and the heading of its line
Mark(pose) ==
    [drawn |-> TRUE, dx |-> pose.x * MapScale, dy |-> -(pose.y * MapScale), yaw |-> pose.yaw]
NoMark == [drawn |-> FALSE, dx |-> 0, dy |-> 0, yaw |-> 0]

\* map.js:39-80: initMap2D draws the grid and the centre point
InitialMap2D == IF map2dCanvas THEN <<"grid", "">> ELSE <<"none", "">>
InitialMark == IF map2dCanvas THEN Mark(Pose(0, 0, 0)) ELSE NoMark

----------------------------------------------------------------------------
(* Notifications on display: main.js showNotification *)

\* main.js:208-223: the alert element and its removal timer
Toast(note) ==
    [message |-> note.message, type |-> note.type, phase |-> "show",
     at |-> now, due |-> now + NotificationDuration]

\* the #notifications container after the notes were posted in order, each
\* by prepend.  No script reads the container; it is followed where a
\* property reads it.
showNotification(notes) ==
    IF "toasts" \in observed
    THEN [i \in 1..Len(notes) |-> Toast(notes[Len(notes) + 1 - i])] \o toasts
    ELSE toasts

\* a notification timer that is due: the event loop runs it before more time
\* passes
TimerDue ==
    \E i \in 1..Len(toasts) : toasts[i].phase # "persistent" /\ toasts[i].due <= now

\* status.js:138-147: the element of one entry of data.notifications; no
\* timer is armed for it
PaneEntry(message) ==
    [message |-> message, type |-> "info", phase |-> "persistent", at |-> now, due |-> now]

\* an image source: the URL up to the payload, and the payload
NoSignal == <<"/static/img/no-signal.png", "">>     \* templates: initial src of #video-feed

DateNow == StartTime + now

\* the scripts' state after the page has loaded
InitState ==
    /\ now = 0
    /\ conn = "connecting"
    /\ attempts = 0
    /\ isConnected = FALSE
    /\ reconnectAttempts = 0
    /\ movementX = 0 /\ movementY = 0
    /\ cameraX = 0 /\ cameraY = 0
    /\ moveLastCall = 0 /\ camLastCall = 0
    /\ orientTimers = <<>>
    /\ statusTimers = <<>>
    /\ fetches = 0
    /\ statusShown = InitialStatus
    /\ isStreaming = FALSE
    /\ frameCount = 0
    /\ lastFpsUpdateTime = 0
    /\ fps = 0
    /\ videoSrc = NoSignal
    /\ out = <<>>
    /\ sendBuffer = <<>>
    /\ posted = <<>>
    /\ lastEvent = "load"
    /\ ticks = 0
    /\ link = "initial"
    /\ lastMoveCmd = 0
    /\ lastActivity = 0
    /\ cameraEnd = -1
    /\ raised = FALSE
    /\ staleOnly = FALSE
    /\ evenFrames = 0
    /\ map2dShown = InitialMap2D
    /\ map2dLoading = <<>>
    /\ map2dRobot = InitialMark
    /\ map3dPoints = <<>>
    /\ robotModel = InitialModel
    /\ sensorShown = InitialSensors
    /\ sensorRaised = FALSE
    /\ toasts = <<>>
    /\ videoTimers = <<>>
    /\ statusRaised = FALSE
    /\ movementJoysticks = 1
    /\ cameraJoysticks = 1
    /\ prevCloud = 0
    /\ paneDropped = 0

\* the page with both maps and the sensor panel, and the later status.js
FullPage ==
    /\ statusScript = "part_004"
    /\ videoScript = "video.js"
    /\ map2dCanvas = TRUE
    /\ map3dScene = TRUE
    /\ sensorPanel = TRUE

InitPage == FullPage /\ InitState

\* history variables are recorded only where a property reads them
Recorded(name, new, old) == IF name \in observed THEN new ELSE old

Init == InitPage /\ observed = {}

sessionVars == <<conn, attempts, isConnected, reconnectAttempts>>
axisVars == <<movementX, movementY, cameraX, cameraY>>
movementVars == <<movementX, movementY, moveLastCall>>
cameraVars == <<cameraX, cameraY, camLastCall>>
timerVars == <<orientTimers, statusTimers, fetches>>
videoVars == <<isStreaming, frameCount, lastFpsUpdateTime, fps, videoSrc, raised,
               staleOnly, evenFrames>>
pageVars == <<statusScript, videoScript, map2dCanvas, map3dScene, sensorPanel>>
mapVars == <<map2dShown, map2dLoading, map2dRobot, map3dPoints, robotModel, prevCloud>>
widgetVars == <<videoTimers, statusRaised, movementJoysticks, cameraJoysticks, paneDropped>>
sensorVars == <<sensorShown, sensorRaised>>

\* what every handler leaves behind: the events it emitted, the notifications
\* it posted and the input it handled
Effects(input, evs, notes) ==
    /\ out' = Sent(evs)
    /\ sendBuffer' = Buffered(evs)
    /\ posted' = notes
    /\ lastEvent' = input
    /\ lastMoveCmd' = IF input = "movement_move" /\ Sent(evs) # <<>>
                      THEN Recorded("lastMoveCmd", DateNow, lastMoveCmd) ELSE lastMoveCmd

\* a handler whose notifications go through showNotification
Handled(input, evs, notes) ==
    /\ Effects(input, evs, notes)
    /\ toasts' = showNotification(notes)

----------------------------------------------------------------------------
(* Session: the Socket.IO client created by io() with reconnection enabled  *)
(* and reconnectionAttempts = maxReconnectAttempts, and the handlers        *)
(* main.js and status.js register on it.                                    *)

\* the transport opens: the socket becomes connected and flushes its send buffer
TransportOpens ==
    /\ conn \in {"connecting", "attempting"}
    /\ conn' = "connected"
    /\ attempts' = 0
    /\ out' = sendBuffer
    /\ sendBuffer' = <<>>
    /\ posted' = <<>>
    /\ toasts' = toasts
    /\ lastEvent' = "connect"
    /\ link' = IF link = "lost" THEN "restored" ELSE link

\* OnConnect that leaves the attempt counter as it is
OnConnectKeepsCount ==
    /\ isConnected' = TRUE
    /\ reconnectAttempts' = reconnectAttempts

\* 'connect' handler of main.js:36-41
OnConnect ==
    /\ isConnected' = TRUE
    /\ reconnectAttempts' = 0

\* OnConnectStatus arming the refresh only when the connect is not a reconnect
OnConnectStatusFirstOnly ==
    /\ Len(statusTimers) < MaxPending
    /\ statusTimers' = IF reconnectAttempts = 0
                       THEN Append(statusTimers, now + StatusRefreshDelay)
                       ELSE statusTimers

\* 'connect' handler of status.js: arms the status refresh timeout
OnConnectStatus ==
    /\ Len(statusTimers) < MaxPending
    /\ statusTimers' = Append(statusTimers, now + StatusRefreshDelay)

\* the connect event with every handler registered on it
ConnectRefresh ==
    /\ TransportOpens
    /\ OnConnect
    /\ OnConnectStatus
    /\ lastActivity' = Recorded("lastActivity", now, lastActivity)
    /\ UNCHANGED <<now, ticks, observed, pageVars, widgetVars, mapVars, sensorVars, lastMoveCmd, axisVars, moveLastCall, camLastCall, orientTimers,
                   fetches, statusShown, videoVars, cameraEnd>>

\* the connect event as the command path sees it: the refresh timeout of
\* status.js, which no command handler reads, is not tracked
Connect ==
    /\ TransportOpens
    /\ OnConnect
    /\ UNCHANGED <<now, ticks, observed, pageVars, widgetVars, mapVars, sensorVars, lastMoveCmd, axisVars, moveLastCall, camLastCall, timerVars,
                   statusShown, videoVars, lastActivity, cameraEnd>>

\* the first connection attempt fails: the transport starts its reconnection cycle
OpenFails ==
    /\ conn = "connecting"
    /\ conn' = "waiting"
    /\ Handled("connect_error", <<>>, <<>>)
    /\ UNCHANGED <<now, ticks, observed, pageVars, widgetVars, mapVars, sensorVars, link, attempts, isConnected, reconnectAttempts, axisVars, moveLastCall,
                   camLastCall, timerVars, statusShown, videoVars, lastActivity, cameraEnd>>

\* 'disconnect': main.js:43-47, and where the page loads the other video.js
\* its handler too (part_001:78-88): no-signal image, streaming flag off, and
\* a timeout that will call socket.connect()
Disconnect(reason) ==
    /\ conn = "connected"
    /\ videoScript = "part_001" => Len(videoTimers) < MaxPending
    /\ conn' = IF reason = "io server disconnect" THEN "disconnected" ELSE "waiting"
    /\ isConnected' = FALSE
    /\ isStreaming' = IF videoScript = "part_001" THEN FALSE ELSE isStreaming
    /\ videoSrc' = IF videoScript = "part_001" THEN NoSignal ELSE videoSrc
    /\ videoTimers' = IF videoScript = "part_001"
                      THEN Append(videoTimers, now + VideoReconnectDelay) ELSE videoTimers
    /\ Handled("disconnect", <<>>, <<>>)
    /\ link' = Recorded("link", "lost", link)
    /\ UNCHANGED <<now, ticks, observed, pageVars, mapVars, sensorVars, attempts, reconnectAttempts, axisVars, moveLastCall,
                   camLastCall, timerVars, statusShown, lastActivity, cameraEnd,
                   frameCount, lastFpsUpdateTime, fps, raised, staleOnly, evenFrames,
                   statusRaised, movementJoysticks, cameraJoysticks, paneDropped>>

\* the timeout of part_001:84-87: socket.connect() called by the video
\* script; it opens the transport unless it is open, opening or in its
\* reconnection cycle
VideoReconnectTimerFires ==
    /\ videoTimers # <<>>
    /\ Head(videoTimers) <= now
    /\ videoTimers' = Tail(videoTimers)
    /\ conn' = IF conn \in {"failed", "disconnected"} THEN "connecting" ELSE conn
    /\ Handled("video_reconnect_timer", <<>>, <<>>)
    /\ UNCHANGED <<now, ticks, observed, pageVars, mapVars, sensorVars, link, attempts,
                   isConnected, reconnectAttempts, axisVars, moveLastCall, camLastCall,
                   timerVars, statusShown, videoVars, lastActivity, cameraEnd,
                   statusRaised, movementJoysticks, cameraJoysticks, paneDropped>>

\* 'reconnect_attempt': main.js:49-52
ReconnectAttempt ==
    /\ conn = "waiting"
    /\ attempts < maxReconnectAttempts
    /\ conn' = "attempting"
    /\ attempts' = attempts + 1
    /\ reconnectAttempts' = attempts + 1
    /\ Handled("reconnect_attempt", <<>>, <<>>)
    /\ UNCHANGED <<now, ticks, observed, pageVars, widgetVars, mapVars, sensorVars, link, isConnected, axisVars, moveLastCall, camLastCall, timerVars,
                   statusShown, videoVars, lastActivity, cameraEnd>>

\* AttemptFails whose reconnect_failed handler only logs
AttemptFailsSilent ==
    /\ conn = "attempting"
    /\ IF attempts < maxReconnectAttempts
       THEN /\ conn' = "waiting"
            /\ attempts' = attempts
            /\ Handled("reconnect_error", <<>>, <<>>)
       ELSE /\ conn' = "failed"
            /\ attempts' = 0
            /\ Handled("reconnect_failed", <<>>, <<>>)
    /\ UNCHANGED <<now, ticks, observed, pageVars, widgetVars, mapVars, sensorVars, link, isConnected, reconnectAttempts, axisVars, moveLastCall, camLastCall,
                   timerVars, statusShown, videoVars, lastActivity, cameraEnd>>

\* a reconnection attempt fails; after the last one 'reconnect_failed': main.js:54-57
AttemptFails ==
    /\ conn = "attempting"
    /\ IF attempts < maxReconnectAttempts
       THEN /\ conn' = "waiting"
            /\ attempts' = attempts
            /\ Handled("reconnect_error", <<>>, <<>>)
       ELSE /\ conn' = "failed"
            /\ attempts' = 0
            /\ Handled("reconnect_failed", <<>>,
                       <<Note("Connection failed. Please refresh the page.", "danger")>>)
    /\ UNCHANGED <<now, ticks, observed, pageVars, widgetVars, mapVars, sensorVars, link, isConnected, reconnectAttempts, axisVars, moveLastCall, camLastCall,
                   timerVars, statusShown, videoVars, lastActivity, cameraEnd>>

\* 'visibilitychange': main.js:159-166; socket.connect() opens the transport
\* unless it is open, opening or in its reconnection cycle
VisibilityChange(visible) ==
    /\ conn' = IF visible /\ ~isConnected /\ conn \in {"failed", "disconnected"}
               THEN "connecting" ELSE conn
    /\ Handled(IF visible THEN "visible" ELSE "hidden", <<>>, <<>>)
    /\ UNCHANGED <<now, ticks, observed, pageVars, widgetVars, mapVars, sensorVars, link, attempts, isConnected, reconnectAttempts, axisVars, moveLastCall,
                   camLastCall, timerVars, statusShown, videoVars, lastActivity, cameraEnd>>

\* Ping that sends no reply
PingUnanswered ==
    /\ conn = "connected"
    /\ Handled("ping", <<>>, <<>>)
    /\ lastActivity' = Recorded("lastActivity", now, lastActivity)
    /\ UNCHANGED <<now, ticks, observed, pageVars, widgetVars, mapVars, sensorVars, link, sessionVars, axisVars, moveLastCall, camLastCall, timerVars,
                   statusShown, videoVars, cameraEnd>>

\* 'ping': main.js:72-75
Ping ==
    /\ conn = "connected"
    /\ Handled("ping", <<Ev("pong", 0, 0)>>, <<>>)
    /\ lastActivity' = Recorded("lastActivity", now, lastActivity)
    /\ UNCHANGED <<now, ticks, observed, pageVars, widgetVars, mapVars, sensorVars, link, sessionVars, axisVars, moveLastCall, camLastCall, timerVars,
                   statusShown, videoVars, cameraEnd>>

----------------------------------------------------------------------------
(* Control channels: joystick.js *)

\* ThrottlePasses of a throttle that lets every call through
ThrottleOpen(lastCall, limit) == TRUE

\* joystick.js:133-142: the call goes through when limit ms have passed since
\* the last call that went through
ThrottlePasses(lastCall, limit) == DateNow - lastCall >= limit

\* MovementCommand sending the axis values as they were before this sample
MovementCommandStale(s) == JoystickMovement(movementX, movementY)

\* joystick.js:45-58: the command sent for a movement sample
MovementCommand(s) == JoystickMovement(Deadzone(AxisX(s)), Deadzone(AxisY(s)))

\* joystick.js:95-113: the command sent for a camera sample
CameraCommand(s) == GimbalControl(Pan(AxisX(s)), Tilt(AxisY(s)))

\* what n live joystick instances emit for one input, each running its handler
RECURSIVE PerInstance(_, _)
PerInstance(evs, n) == IF n <= 0 THEN <<>> ELSE evs \o PerInstance(evs, n - 1)

\* joystick.js:43-63
MovementMove(s) ==
    /\ IF ThrottlePasses(moveLastCall, movementThrottleInterval)
       THEN /\ moveLastCall' = DateNow
            /\ movementX' = Deadzone(AxisX(s))
            /\ movementY' = Deadzone(AxisY(s))
            /\ Handled("movement_move",
                       IF isConnected
                       THEN PerInstance(<<MovementCommand(s)>>, movementJoysticks)
                       ELSE <<>>,
                       <<>>)
       ELSE /\ UNCHANGED movementVars
            /\ Handled("movement_move", <<>>, <<>>)
    /\ UNCHANGED <<now, ticks, observed, pageVars, widgetVars, mapVars, sensorVars, link, sessionVars, cameraVars, timerVars, statusShown, videoVars,
                   lastActivity, cameraEnd>>

\* MovementEnd with its zero command sent through the throttle of the move handler
MovementEndThrottled ==
    /\ movementX' = 0
    /\ movementY' = 0
    /\ Handled("movement_end",
               IF isConnected /\ ThrottlePasses(moveLastCall, movementThrottleInterval)
               THEN <<JoystickMovement(0, 0)>> ELSE <<>>,
               <<>>)
    /\ UNCHANGED <<now, ticks, observed, pageVars, widgetVars, mapVars, sensorVars, link, sessionVars, moveLastCall, cameraVars, timerVars,
                   statusShown, videoVars, lastActivity, cameraEnd>>

\* MovementEnd after a throttle that delivers the dropped sample as a trailing call
MovementEndTrailing ==
    /\ movementX' = 0
    /\ movementY' = 0
    /\ Handled("movement_end",
               IF isConnected
               THEN <<JoystickMovement(0, 0), JoystickMovement(movementX, movementY)>>
               ELSE <<>>,
               <<>>)
    /\ UNCHANGED <<now, ticks, observed, pageVars, widgetVars, mapVars, sensorVars, link, sessionVars, moveLastCall, cameraVars, timerVars, statusShown,
                   videoVars, lastActivity, cameraEnd>>

\* joystick.js:65-76
MovementEnd ==
    /\ movementX' = 0
    /\ movementY' = 0
    /\ Handled("movement_end",
               IF isConnected
               THEN PerInstance(<<JoystickMovement(0, 0)>>, movementJoysticks) ELSE <<>>,
               <<>>)
    /\ UNCHANGED <<now, ticks, observed, pageVars, widgetVars, mapVars, sensorVars, link, sessionVars, moveLastCall, cameraVars, timerVars, statusShown,
                   videoVars, lastActivity, cameraEnd>>

\* joystick.js:93-118
CameraMove(s) ==
    /\ IF ThrottlePasses(camLastCall, cameraThrottleInterval)
       THEN /\ camLastCall' = DateNow
            /\ cameraX' = AxisX(s)
            /\ cameraY' = AxisY(s)
            /\ Handled("camera_move",
                       IF isConnected
                       THEN PerInstance(<<CameraCommand(s)>>, cameraJoysticks)
                       ELSE <<>>,
                       <<>>)
       ELSE /\ UNCHANGED cameraVars
            /\ Handled("camera_move", <<>>, <<>>)
    /\ cameraEnd' = Recorded("cameraEnd", -1, cameraEnd)
    /\ UNCHANGED <<now, ticks, observed, pageVars, widgetVars, mapVars, sensorVars, link, sessionVars, movementVars, timerVars, statusShown, videoVars,
                   lastActivity>>

\* joystick.js:120-123
CameraEnd ==
    /\ Handled("camera_end", <<>>, <<>>)
    /\ cameraEnd' = Recorded("cameraEnd", now, cameraEnd)
    /\ UNCHANGED <<now, ticks, observed, pageVars, widgetVars, mapVars, sensorVars, link, sessionVars, movementVars, cameraVars, timerVars, statusShown,
                   videoVars, lastActivity>>

----------------------------------------------------------------------------
(* Buttons: main.js setupEventListeners *)

NotConnected == Note("Not connected to server", "danger")

\* main.js:85-93
CalibrateClick ==
    /\ IF ~isConnected
       THEN Handled("calibrate_click", <<>>, <<NotConnected>>)
       ELSE Handled("calibrate_click", <<Ev("calibrate_imu", 0, 0)>>,
                    <<Note("Calibrating IMU...", "info")>>)
    /\ UNCHANGED <<now, ticks, observed, pageVars, widgetVars, mapVars, sensorVars, link, sessionVars, movementVars, cameraVars, timerVars, statusShown,
                   videoVars, lastActivity, cameraEnd>>

\* StopClick without the isConnected check
StopClickUnguarded ==
    /\ Handled("stop_click", <<JoystickMovement(0, 0)>>, <<Note("Stopped", "info")>>)
    /\ UNCHANGED <<now, ticks, observed, pageVars, widgetVars, mapVars, sensorVars, link, sessionVars, movementVars, cameraVars, timerVars,
                   statusShown, videoVars, lastActivity, cameraEnd>>

\* main.js:99-107
StopClick ==
    /\ IF ~isConnected
       THEN Handled("stop_click", <<>>, <<NotConnected>>)
       ELSE Handled("stop_click", <<JoystickMovement(0, 0)>>,
                    <<Note("Stopped", "info")>>)
    /\ UNCHANGED <<now, ticks, observed, pageVars, widgetVars, mapVars, sensorVars, link, sessionVars, movementVars, cameraVars, timerVars, statusShown,
                   videoVars, lastActivity, cameraEnd>>

\* main.js:113-121
CenterCameraClick ==
    /\ IF ~isConnected
       THEN Handled("center_click", <<>>, <<NotConnected>>)
       ELSE Handled("center_click", <<GimbalControl(PanDefault, TiltDefault)>>,
                    <<Note("Camera centered", "info")>>)
    /\ UNCHANGED <<now, ticks, observed, pageVars, widgetVars, mapVars, sensorVars, link, sessionVars, movementVars, cameraVars, timerVars, statusShown,
                   videoVars, lastActivity, cameraEnd>>

----------------------------------------------------------------------------
(* Page-level handlers: mobile.js *)

\* mobile.js:28-29, 51: the handler only arms a timeout
OrientationChange ==
    /\ Len(orientTimers) < MaxPending
    /\ orientTimers' = Append(orientTimers, now + OrientationDelay)
    /\ Handled("orientationchange", <<>>, <<>>)
    /\ UNCHANGED <<now, ticks, observed, pageVars, widgetVars, mapVars, sensorVars, link, sessionVars, movementVars, cameraVars, statusTimers, fetches,
                   statusShown, videoVars, lastActivity, cameraEnd>>

\* nipplejs destroy() of the instance a variable refers to: its elements and
\* handlers are removed
Destroyed(n) == IF n > 0 THEN n - 1 ELSE 0

\* OrientationTimerFires that re-creates the joysticks without destroying them
OrientationTimerFiresNoDestroy ==
    /\ orientTimers # <<>>
    /\ Head(orientTimers) <= now
    /\ orientTimers' = Tail(orientTimers)
    /\ moveLastCall' = 0
    /\ camLastCall' = 0
    /\ movementJoysticks' = movementJoysticks + 1
    /\ cameraJoysticks' = cameraJoysticks + 1
    /\ Handled("orientation_timer", <<>>, <<>>)
    /\ UNCHANGED <<now, ticks, observed, pageVars, mapVars, sensorVars, link, sessionVars, axisVars, statusTimers, fetches, statusShown,
                   videoVars, lastActivity, cameraEnd, videoTimers, statusRaised, paneDropped>>

\* mobile.js:29-41: destroy both joysticks and call initJoysticks(), which
\* creates one instance on each container with its move and end handlers and
\* wraps the new move handlers in new throttle closures (lastCall = 0)
OrientationTimerFires ==
    /\ orientTimers # <<>>
    /\ Head(orientTimers) <= now
    /\ orientTimers' = Tail(orientTimers)
    /\ moveLastCall' = 0
    /\ camLastCall' = 0
    /\ movementJoysticks' = Destroyed(movementJoysticks) + 1
    /\ cameraJoysticks' = Destroyed(cameraJoysticks) + 1
    /\ Handled("orientation_timer", <<>>, <<>>)
    /\ UNCHANGED <<now, ticks, observed, pageVars, mapVars, sensorVars, link, sessionVars, axisVars, statusTimers, fetches, statusShown,
                   videoVars, lastActivity, cameraEnd, videoTimers, statusRaised, paneDropped>>

\* BeforeUnload that sends the stop command whatever the session state
BeforeUnloadUnguarded ==
    /\ Handled("beforeunload", <<JoystickMovement(0, 0)>>, <<>>)
    /\ UNCHANGED <<now, ticks, observed, pageVars, widgetVars, mapVars, sensorVars, link, sessionVars,
                   movementVars, cameraVars, timerVars, statusShown, videoVars,
                   lastActivity, cameraEnd>>

\* main.js:169-174: the beforeunload handler
BeforeUnload ==
    /\ Handled("beforeunload",
               IF isConnected THEN <<JoystickMovement(0, 0)>> ELSE <<>>,
               <<>>)
    /\ UNCHANGED <<now, ticks, observed, pageVars, widgetVars, mapVars, sensorVars, link, sessionVars,
                   movementVars, cameraVars, timerVars, statusShown, videoVars,
                   lastActivity, cameraEnd>>

----------------------------------------------------------------------------
(* Status refresh: status.js initStatusMonitoring *)

\* the timeout armed by the connect handler fires: fetch('/api/status')
StatusTimerFires ==
    /\ statusTimers # <<>>
    /\ Head(statusTimers) <= now
    /\ fetches < MaxPending
    /\ statusTimers' = Tail(statusTimers)
    /\ fetches' = fetches + 1
    /\ Handled("status_timer", <<>>, <<>>)
    /\ UNCHANGED <<now, ticks, observed, pageVars, widgetVars, mapVars, sensorVars, link, sessionVars, movementVars, cameraVars, orientTimers, statusShown,
                   videoVars, lastActivity, cameraEnd>>

\* the request succeeds with a JSON body: .then(data => updateStatusDisplay(data))
FetchResolves(data) ==
    /\ fetches > 0
    /\ fetches' = fetches - 1
    /\ statusShown' = StatusDisplay(data, statusShown)
    /\ Handled("fetch_ok", <<>>, <<>>)
    /\ UNCHANGED <<now, ticks, observed, pageVars, widgetVars, mapVars, sensorVars, link, sessionVars, movementVars, cameraVars, orientTimers, statusTimers,
                   videoVars, lastActivity, cameraEnd>>

\* the entries of showNotification in the container whose 5000 ms have not elapsed
Unexpired ==
    Cardinality({i \in 1..Len(toasts) : toasts[i].phase = "show" /\ toasts[i].due > now})

\* whether updateStatusDisplay rewrites the #notifications container
\* (status.js:131): the list is there and not empty.  The container is
\* followed where a property reads it.
ReplacesPane(data) ==
    /\ "toasts" \in observed
    /\ ~data.isNull
    /\ data.notifications.present
    /\ Len(data.notifications.list) > 0

\* StatusUpdate adding the entries of the list to the container without
\* clearing it
StatusUpdateAdding(data) ==
    /\ conn = "connected"
    /\ statusShown' = IF data.isNull THEN statusShown ELSE StatusDisplay(data, statusShown)
    /\ statusRaised' = data.isNull
    /\ toasts' = IF ReplacesPane(data)
                 THEN toasts \o [i \in 1..Len(data.notifications.list) |->
                                    PaneEntry(data.notifications.list[i])]
                 ELSE toasts
    /\ paneDropped' = paneDropped
    /\ Effects("status_update", <<>>, <<>>)
    /\ UNCHANGED <<now, ticks, observed, pageVars, mapVars, sensorVars, link, sessionVars,
                   movementVars, cameraVars, timerVars, videoVars, lastActivity, cameraEnd,
                   videoTimers, movementJoysticks, cameraJoysticks>>

\* status.js:24-26: a status_update event, updateStatusDisplay (55-150).  The
\* log statement of lines 57-62 reads data.cpu_usage before the check of line
\* 65: a null payload raises there and the exception leaves the handler (the
\* earlier version raises at its first read, part_003:321).
StatusUpdate(data) ==
    /\ conn = "connected"
    /\ statusShown' = IF data.isNull THEN statusShown ELSE StatusDisplay(data, statusShown)
    /\ statusRaised' = data.isNull
    /\ toasts' = IF ReplacesPane(data)
                 THEN [i \in 1..Len(data.notifications.list) |->
                          PaneEntry(data.notifications.list[i])]
                 ELSE toasts
    /\ paneDropped' = IF ReplacesPane(data)
                      THEN Recorded("toasts", Unexpired, paneDropped) ELSE paneDropped
    /\ Effects("status_update", <<>>, <<>>)
    /\ UNCHANGED <<now, ticks, observed, pageVars, mapVars, sensorVars, link, sessionVars,
                   movementVars, cameraVars, timerVars, videoVars, lastActivity, cameraEnd,
                   videoTimers, movementJoysticks, cameraJoysticks>>

\* status.js:28-30: a sensor_data event
SensorData(data) ==
    /\ conn = "connected"
    /\ sensorShown' = updateSensorDisplay(data, sensorShown)
    /\ sensorRaised' = SensorRaises(data)
    /\ Handled("sensor_data", <<>>, <<>>)
    /\ UNCHANGED <<now, ticks, observed, pageVars, widgetVars, mapVars, link, sessionVars, movementVars,
                   cameraVars, timerVars, statusShown, videoVars, lastActivity, cameraEnd>>

\* the request fails (network error, body that is not JSON): .catch logs the error
FetchRejects ==
    /\ fetches > 0
    /\ fetches' = fetches - 1
    /\ Handled("fetch_error", <<>>, <<>>)
    /\ UNCHANGED <<now, ticks, observed, pageVars, widgetVars, mapVars, sensorVars, link, sessionVars, movementVars, cameraVars, orientTimers, statusTimers,
                   statusShown, videoVars, lastActivity, cameraEnd>>

----------------------------------------------------------------------------
(* Video: video.js *)

\* the payload of a video_frame event.  kind is its shape: "string" (base64
\* text), "object" ({data: base64 text}), "other" (any other value that is not
\* null, e.g. {} or a number) or "null" (null or undefined).  stale tells
\* whether the server produced the frame before the video_error the console
\* received last; nothing in the payload carries it.
Frame(kind, data) == [kind |-> kind, data |-> data, stale |-> FALSE]
StaleFrame(kind, data) == [kind |-> kind, data |-> data, stale |-> TRUE]
\* DataUri that keeps showing the first frame of the stream
DataUriFirst(data) == <<"data:image/jpeg;base64,", "f1">>
DataUri(data) == <<"data:image/jpeg;base64,", data>>

\* frames the model lets one FPS window count
FrameCap == IF "evenFrames" \in observed THEN MaxWindowFrames ELSE MaxFrames

\* spacing of 20 frames spread evenly over 1000 ms
EvenSpacing == 1000 \div 20

\* evenFrames is -1 once a frame of the current window was off the even
\* schedule, else the number of frames of the current window, the k-th having
\* arrived k spacings after the window's start; it is 20 right after a window
\* of exactly 20 such frames has been closed
EvenSoFar == IF evenFrames = 20 THEN 0 ELSE evenFrames
EvenlyOnTime ==
    /\ EvenSoFar >= 0
    /\ now = lastFpsUpdateTime + EvenSpacing * (EvenSoFar + 1)

\* video.js:66-91
FpsWindowElapsed == now - lastFpsUpdateTime >= 1000

\* FpsValue without the frame that closes the window
FpsValueBeforeCount == Round(frameCount * 1000, now - lastFpsUpdateTime)

\* video.js:67-74: frameCount++ comes first
FpsValue == Round((frameCount + 1) * 1000, now - lastFpsUpdateTime)

\* StreamingStarted posted for every frame
StreamingStartedAlways == <<Note("Video streaming started", "success")>>

\* the notification of video.js:29-33
StreamingStarted ==
    IF isStreaming THEN <<>> ELSE <<Note("Video streaming started", "success")>>

\* video.js:28-50 with updateFps (66-91).  The log statement of line 36 reads
\* data.data of every payload that is not a string: a null payload raises
\* there, after the streaming flag has been set, and the exception leaves the
\* handler.
VideoFrame(f) ==
    /\ conn = "connected"
    /\ frameCount < FrameCap
    /\ isStreaming' = TRUE
    /\ raised' = (f.kind = "null")
    /\ IF f.kind \in {"string", "object"}
       THEN /\ videoSrc' = DataUri(f.data)
            /\ IF FpsWindowElapsed
               THEN /\ fps' = FpsValue
                    /\ frameCount' = 0
                    /\ lastFpsUpdateTime' = now
                    /\ evenFrames' = Recorded("evenFrames",
                                               IF EvenlyOnTime /\ EvenSoFar + 1 = 20 THEN 20 ELSE 0,
                                               evenFrames)
                    /\ Handled("video_frame",
                               IF isConnected THEN <<Ev("update_fps", FpsValue, 0)>> ELSE <<>>,
                               StreamingStarted)
               ELSE /\ frameCount' = frameCount + 1
                    /\ evenFrames' =
                          Recorded("evenFrames",
                                   IF EvenlyOnTime THEN EvenSoFar + 1 ELSE -1,
                                   evenFrames)
                    /\ UNCHANGED <<fps, lastFpsUpdateTime>>
                    /\ Handled("video_frame", <<>>, StreamingStarted)
       ELSE /\ UNCHANGED <<videoSrc, fps, frameCount, lastFpsUpdateTime, evenFrames>>
            /\ Handled("video_frame", <<>>, StreamingStarted)
    /\ staleOnly' = Recorded("staleOnly", staleOnly /\ f.stale, staleOnly)
    /\ UNCHANGED <<now, ticks, observed, pageVars, widgetVars, mapVars, sensorVars, link, sessionVars, movementVars, cameraVars, timerVars, statusShown,
                   lastActivity, cameraEnd>>

\* video.js:52-59
VideoError ==
    /\ conn = "connected"
    /\ isStreaming' = FALSE
    /\ videoSrc' = NoSignal
    /\ Handled("video_error", <<>>, <<Note("Video error: message", "danger")>>)
    /\ staleOnly' = Recorded("staleOnly", TRUE, staleOnly)
    /\ UNCHANGED <<now, ticks, observed, pageVars, widgetVars, mapVars, sensorVars, link, sessionVars, movementVars, cameraVars, timerVars, statusShown,
                   frameCount, lastFpsUpdateTime, fps, raised, evenFrames, lastActivity, cameraEnd>>

----------------------------------------------------------------------------
(* Map: map.js *)

\* updateMaps (160-189) applying the 3D points only together with a 2D image
MapUpdateCoupled(data) ==
    LET do2d == data.map_2d # "" /\ map2dCanvas
        do3d == do2d /\ data.map_3d.present /\ map3dScene
        doPose == data.pose.position /\ data.pose.orientation /\ map3dScene
    IN  /\ conn = "connected"
        /\ do2d /\ ~TooShort(data.map_2d) => Len(map2dLoading) < MaxPending
        /\ map2dShown' = IF ~do2d THEN map2dShown
                          ELSE IF TooShort(data.map_2d) THEN <<"invalid", "">>
                          ELSE <<"blank", "">>
        /\ map2dLoading' = IF do2d /\ ~TooShort(data.map_2d)
                            THEN Append(map2dLoading, data.map_2d) ELSE map2dLoading
        /\ map3dPoints' = IF do3d THEN updateMap3D(data.map_3d.points, map3dPoints)
                          ELSE map3dPoints
        /\ prevCloud' = IF do3d THEN Recorded("prevCloud", Len(map3dPoints), prevCloud)
                         ELSE prevCloud
        /\ robotModel' = IF doPose THEN ModelAt(data.pose) ELSE robotModel
        /\ map2dRobot' = IF doPose /\ map2dCanvas THEN Mark(data.pose)
                          ELSE IF do2d THEN NoMark
                          ELSE map2dRobot
        /\ Handled("map_update", <<>>, <<>>)
        /\ UNCHANGED <<now, ticks, observed, pageVars, widgetVars, sensorVars, link, sessionVars,
                       movementVars, cameraVars, timerVars, statusShown, videoVars,
                       lastActivity, cameraEnd>>

\* the map_update handler (map.js:30-32): updateMaps (160-189) with
\* updateMap2D (195-256), updateMap3D (311-336) and updateRobotPosition
\* (343-379).  updateMap2D repaints the background at once and leaves the
\* image to be drawn when it has been decoded; updateRobotPosition returns at
\* its first line where there is no robotModel, which initMap3D creates.
MapUpdate(data) ==
    LET do2d == data.map_2d # "" /\ map2dCanvas
        do3d == data.map_3d.present /\ map3dScene
        doPose == data.pose.position /\ data.pose.orientation /\ map3dScene
    IN  /\ conn = "connected"
        /\ do2d /\ ~TooShort(data.map_2d) => Len(map2dLoading) < MaxPending
        /\ map2dShown' = IF ~do2d THEN map2dShown
                          ELSE IF TooShort(data.map_2d) THEN <<"invalid", "">>
                          ELSE <<"blank", "">>
        /\ map2dLoading' = IF do2d /\ ~TooShort(data.map_2d)
                            THEN Append(map2dLoading, data.map_2d) ELSE map2dLoading
        /\ map3dPoints' = IF do3d THEN updateMap3D(data.map_3d.points, map3dPoints)
                          ELSE map3dPoints
        /\ prevCloud' = IF do3d THEN Recorded("prevCloud", Len(map3dPoints), prevCloud)
                         ELSE prevCloud
        /\ robotModel' = IF doPose THEN ModelAt(data.pose) ELSE robotModel
        /\ map2dRobot' = IF doPose /\ map2dCanvas THEN Mark(data.pose)
                          ELSE IF do2d THEN NoMark
                          ELSE map2dRobot
        /\ Handled("map_update", <<>>, <<>>)
        /\ UNCHANGED <<now, ticks, observed, pageVars, widgetVars, sensorVars, link, sessionVars,
                       movementVars, cameraVars, timerVars, statusShown, videoVars,
                       lastActivity, cameraEnd>>

\* a sequence without its i-th element
Without(seq, i) == [j \in 1..(Len(seq) - 1) |-> IF j < i THEN seq[j] ELSE seq[j + 1]]

\* img.onload (map.js:237-245): the decoded image is drawn over the whole
\* canvas.  Images are decoded concurrently and may finish in any order.
ImageLoads(i) ==
    /\ i \in 1..Len(map2dLoading)
    /\ Decodes(map2dLoading[i])
    /\ map2dShown' = <<"image", map2dLoading[i]>>
    /\ map2dRobot' = NoMark
    /\ map2dLoading' = Without(map2dLoading, i)
    /\ Handled("map_image_load", <<>>, <<>>)
    /\ UNCHANGED <<now, ticks, observed, pageVars, widgetVars, sensorVars, link, sessionVars,
                   movementVars, cameraVars, timerVars, statusShown, videoVars,
                   lastActivity, cameraEnd, map3dPoints, robotModel, prevCloud>>

\* img.onerror (map.js:219-235): a red border, a text and the fallback grid
\* are drawn over what the canvas shows
ImageFails(i) ==
    /\ i \in 1..Len(map2dLoading)
    /\ ~Decodes(map2dLoading[i])
    /\ map2dShown' = <<"fallback", "">>
    /\ map2dLoading' = Without(map2dLoading, i)
    /\ Handled("map_image_error", <<>>, <<>>)
    /\ UNCHANGED <<now, ticks, observed, pageVars, widgetVars, sensorVars, link, sessionVars,
                   movementVars, cameraVars, timerVars, statusShown, videoVars,
                   lastActivity, cameraEnd, map2dRobot, map3dPoints, robotModel, prevCloud>>

----------------------------------------------------------------------------
(* Notification timers: main.js showNotification *)

\* main.js:218-223: the 5000 ms timeout removes the class 'show' and arms the
\* 150 ms timeout
NotificationTimerFires(i) ==
    /\ i \in 1..Len(toasts)
    /\ toasts[i].phase = "show"
    /\ toasts[i].due <= now
    /\ toasts' = [toasts EXCEPT ![i].phase = "fading", ![i].due = now + FadeDuration]
    /\ Effects("notification_timer", <<>>, <<>>)
    /\ UNCHANGED <<now, ticks, observed, pageVars, widgetVars, mapVars, sensorVars, link, sessionVars,
                   movementVars, cameraVars, timerVars, statusShown, videoVars,
                   lastActivity, cameraEnd>>

\* the 150 ms timeout that leaves the faded notification in the container
NotificationFadeKeeps(i) ==
    /\ i \in 1..Len(toasts)
    /\ toasts[i].phase = "fading"
    /\ toasts[i].due <= now
    /\ toasts' = [toasts EXCEPT ![i].phase = "hidden"]
    /\ Effects("notification_fade", <<>>, <<>>)
    /\ UNCHANGED <<now, ticks, observed, pageVars, widgetVars, mapVars, sensorVars, link, sessionVars,
                   movementVars, cameraVars, timerVars, statusShown, videoVars,
                   lastActivity, cameraEnd>>

\* main.js:220-222: the 150 ms timeout removes the element
NotificationFadeEnds(i) ==
    /\ i \in 1..Len(toasts)
    /\ toasts[i].phase = "fading"
    /\ toasts[i].due <= now
    /\ toasts' = Without(toasts, i)
    /\ Effects("notification_fade", <<>>, <<>>)
    /\ UNCHANGED <<now, ticks, observed, pageVars, widgetVars, mapVars, sensorVars, link, sessionVars,
                   movementVars, cameraVars, timerVars, statusShown, videoVars,
                   lastActivity, cameraEnd>>

----------------------------------------------------------------------------
(* Time *)

Tick(d) ==
    /\ ticks < MaxTicks
    /\ ticks' = ticks + 1
    /\ now' = now + d
    /\ Handled("tick", <<>>, <<>>)
    /\ UNCHANGED <<observed, pageVars, widgetVars, mapVars, sensorVars, link, sessionVars, movementVars, cameraVars, timerVars, statusShown,
                   videoVars, lastActivity, cameraEnd>>

\* how far the stepping clock runs
Horizon == IF "toasts" \in observed THEN NotifyHorizon ELSE FpsHorizon

\* the stepping clock: it runs in steps up to a horizon, and a timer that is
\* due runs before the next step
Elapse(d) ==
    /\ now + d <= Horizon
    /\ ~TimerDue
    /\ now' = now + d
    /\ Handled("tick", <<>>, <<>>)
    /\ UNCHANGED <<ticks, observed, pageVars, widgetVars, mapVars, sensorVars, link, sessionVars, movementVars, cameraVars, timerVars, statusShown,
                   videoVars, lastActivity, cameraEnd>>

\* the operator reloads the page: every script starts over
Reload ==
    /\ now' = 0
    /\ conn' = "connecting"
    /\ attempts' = 0
    /\ isConnected' = FALSE
    /\ reconnectAttempts' = 0
    /\ movementX' = 0 /\ movementY' = 0
    /\ cameraX' = 0 /\ cameraY' = 0
    /\ moveLastCall' = 0 /\ camLastCall' = 0
    /\ orientTimers' = <<>>
    /\ statusTimers' = <<>>
    /\ fetches' = 0
    /\ statusShown' = InitialStatus
    /\ isStreaming' = FALSE
    /\ frameCount' = 0
    /\ lastFpsUpdateTime' = 0
    /\ fps' = 0
    /\ videoSrc' = NoSignal
    /\ out' = <<>>
    /\ sendBuffer' = <<>>
    /\ posted' = <<>>
    /\ lastEvent' = "load"
    /\ link' = "initial"
    /\ lastMoveCmd' = 0
    /\ lastActivity' = 0
    /\ cameraEnd' = -1
    /\ raised' = FALSE
    /\ staleOnly' = FALSE
    /\ evenFrames' = 0
    /\ map2dShown' = InitialMap2D
    /\ map2dLoading' = <<>>
    /\ map2dRobot' = InitialMark
    /\ map3dPoints' = <<>>
    /\ robotModel' = InitialModel
    /\ sensorShown' = InitialSensors
    /\ sensorRaised' = FALSE
    /\ toasts' = <<>>
    /\ videoTimers' = <<>>
    /\ statusRaised' = FALSE
    /\ movementJoysticks' = 1
    /\ cameraJoysticks' = 1
    /\ prevCloud' = 0
    /\ paneDropped' = 0
    /\ UNCHANGED <<ticks, observed, pageVars>>

----------------------------------------------------------------------------
(* Inputs explored *)

Samples == { Sample(2, "E"), Sample(3, "NE"), Sample(60, "NE") }
Frames == { Frame("string", "f1"), Frame("object", "f2"), StaleFrame("string", "f0"),
            Frame("other", ""), Frame("null", "") }
Reasons == { "transport close", "io server disconnect" }

\* the transport's events other than connect
TransportNext ==
    \/ OpenFails
    \/ \E r \in Reasons : Disconnect(r)
    \/ ReconnectAttempt
    \/ AttemptFails
    \/ \E v \in BOOLEAN : VisibilityChange(v)

ControlNext ==
    \/ \E s \in Samples : MovementMove(s)
    \/ MovementEnd
    \/ \E s \in Samples : CameraMove(s)
    \/ CameraEnd
    \/ CalibrateClick
    \/ StopClick
    \/ CenterCameraClick

\* the command path: session, both control channels and the buttons
Next ==
    \/ Connect
    \/ TransportNext
    \/ ControlNext
    \/ Tick(FineStep)
    \/ Tick(cameraThrottleInterval)

Spec == Init /\ [][Next]_vars

\* every handler that emits a command or a report, on a coarse clock
NextEmit ==
    \/ Connect
    \/ TransportNext
    \/ MovementMove(Sample(50, "E"))
    \/ MovementEnd
    \/ CameraMove(Sample(50, "E"))
    \/ CalibrateClick
    \/ StopClick
    \/ CenterCameraClick
    \/ VideoFrame(Frame("string", "f1"))
    \/ Tick(1000)

SpecEmit == Init /\ [][NextEmit]_vars

\* the command path again, recording whether the link was lost and restored
InitReconnect == InitPage /\ observed = {"link"}

SpecReconnect == InitReconnect /\ [][Next]_vars

\* the movement channel with the page-level handlers that touch it
NextMove ==
    \/ Connect
    \/ TransportNext
    \/ \E s \in Samples : MovementMove(s)
    \/ MovementEnd
    \/ StopClick
    \/ OrientationChange
    \/ OrientationTimerFires
    \/ Tick(FineStep)
    \/ Tick(OrientationDelay)

InitMove == InitPage /\ observed = {"lastMoveCmd"}

SpecMove == InitMove /\ [][NextMove]_vars

\* the camera channel on the time scale of the auto-center delay
NextCamera ==
    \/ Connect
    \/ TransportNext
    \/ \E s \in Samples : CameraMove(s)
    \/ CameraEnd
    \/ CenterCameraClick
    \/ Tick(cameraThrottleInterval)
    \/ Tick(AutoCenterDelay)

InitCamera == InitPage /\ observed = {"cameraEnd"}

SpecCamera == InitCamera /\ [][NextCamera]_vars

\* the session: connection lifecycle, heartbeat and status refresh
NextSession ==
    \/ ConnectRefresh
    \/ TransportNext
    \/ Ping
    \/ StatusTimerFires
    \/ \E data \in StatusSamples : FetchResolves(data)
    \/ FetchRejects
    \/ Reload
    \/ Tick(StatusRefreshDelay)
    \/ Tick(KeepaliveTimeout)

InitSession == InitPage /\ observed = {"lastActivity", "link"}

SpecSession == InitSession /\ [][NextSession]_vars

\* both throttled channels on a clock finer than their intervals, with the
\* page-level handler that re-creates the throttles
ThrottleSamples == { Sample(50, "E"), Sample(50, "N") }

NextThrottle ==
    \/ Connect
    \/ Disconnect("io server disconnect")
    \/ VisibilityChange(TRUE)
    \/ \E s \in ThrottleSamples : MovementMove(s)
    \/ \E s \in ThrottleSamples : CameraMove(s)
    \/ OrientationChange
    \/ OrientationTimerFires
    \/ Tick(FineStep)
    \/ Tick(OrientationDelay)

SpecThrottle == Init /\ [][NextThrottle]_vars

\* the camera channel over the whole range of the joystick
CameraSamples ==
    { Sample(d, a) : d \in {0, 25, 50, 60}, a \in {"E", "N", "W", "S", "NE"} }

NextGimbal ==
    \/ Connect
    \/ TransportNext
    \/ \E s \in CameraSamples : CameraMove(s)
    \/ CameraEnd
    \/ CenterCameraClick
    \/ Tick(cameraThrottleInterval)

SpecGimbal == Init /\ [][NextGimbal]_vars

\* the video pipeline: frames of every shape, fresh and stale, and errors
NextVideo ==
    \/ Connect
    \/ TransportNext
    \/ \E f \in Frames : VideoFrame(f)
    \/ VideoError
    \/ Tick(1000)

InitVideo == InitPage /\ observed = {"staleOnly"}

SpecVideo == InitVideo /\ [][NextVideo]_vars

\* the FPS measurement over whole windows, on a clock of one frame spacing
NextFps ==
    \/ Connect
    \/ Disconnect("io server disconnect")
    \/ VisibilityChange(TRUE)
    \/ VideoFrame(Frame("string", "f1"))
    \/ VideoFrame(Frame("other", ""))
    \/ Elapse(EvenSpacing)

InitFps == InitPage /\ observed = {"evenFrames"}

SpecFps == InitFps /\ [][NextFps]_vars

\* the status indicators: samples in every band, and incomplete samples
BandSamples ==
    { StatusData(c, m, t, f) :
        c \in {Num(304), Num(700), Num(855), NaN},
        m \in {Num(612), NaN},
        t \in {Num(455), Num(650), Num(705)},
        f \in {Num(98), NaN} }

NextStatus ==
    \/ Connect
    \/ Disconnect("io server disconnect")
    \/ VisibilityChange(TRUE)
    \/ \E data \in BandSamples \cup {NullStatus} : StatusUpdate(data)

InitStatus ==
    /\ videoScript = "video.js"
    /\ statusScript \in {"part_003", "part_004"}
    /\ map2dCanvas = TRUE /\ map3dScene = TRUE /\ sensorPanel = TRUE
    /\ InitState
    /\ observed = {}

SpecStatus == InitStatus /\ [][NextStatus]_vars

\* the sensor panel: complete groups, missing groups, and groups with a
\* field that is missing or not a number
SensorSamples ==
    { SensorSample(cal, acc, gyr, ori) :
        cal \in {"undefined", "true", "false"},
        acc \in {NoVec, Vec(Num(120), Num(15), Num(9806)), Vec(Num(120), NaN, Num(9806))},
        gyr \in {NoVec, Vec(Num(4), Num(0), Num(26)), Vec(NaN, Num(0), Num(26))},
        ori \in {NoVec, Vec(Num(1500), Num(250), Num(90000))} }

NextSensor ==
    \/ Connect
    \/ Disconnect("io server disconnect")
    \/ VisibilityChange(TRUE)
    \/ \E data \in SensorSamples : SensorData(data)

InitSensor ==
    /\ videoScript = "video.js"
    /\ statusScript = "part_004"
    /\ map2dCanvas = TRUE /\ map3dScene = TRUE
    /\ sensorPanel \in BOOLEAN
    /\ InitState
    /\ observed = {}

SpecSensor == InitSensor /\ [][NextSensor]_vars

\* the maps: payloads with every combination of components, on pages with
\* and without each map
Cloud1 == << <<1, 2, 0>> >>
Cloud2 == << <<0, 1, 1>>, <<2, 0, 0>> >>
MapSamples ==
    { MapData(m2, m3, pose) :
        m2 \in {"", "m1", "m2", "short", "corrupt"},
        m3 \in {NoCloud, Cloud(<<>>), Cloud(Cloud1), Cloud(Cloud2)},
        pose \in {NoPose, Pose(1, 2, 90), PositionOnly(2, 2)} }

NextMap ==
    \/ Connect
    \/ Disconnect("io server disconnect")
    \/ VisibilityChange(TRUE)
    \/ \E data \in MapSamples : MapUpdate(data)
    \/ \E i \in 1..MaxPending : ImageLoads(i)
    \/ \E i \in 1..MaxPending : ImageFails(i)

InitMap ==
    /\ videoScript = "video.js"
    /\ statusScript = "part_004"
    /\ map2dCanvas \in BOOLEAN /\ map3dScene \in BOOLEAN
    /\ sensorPanel = TRUE
    /\ InitState
    /\ observed = {"prevCloud"}

SpecMap == InitMap /\ [][NextMap]_vars

\* notifications on display: the clock steps by the two timer delays, and
\* notifications are posted at the first instants of the run
PostTimes == {0, FadeDuration, NotificationDuration}
CanPost == now \in PostTimes /\ Len(toasts) < MaxToasts

NotificationTimers ==
    \/ \E i \in 1..MaxToasts : NotificationTimerFires(i)
    \/ \E i \in 1..MaxToasts : NotificationFadeEnds(i)

NextNotify ==
    \/ Connect
    \/ CanPost /\ CalibrateClick
    \/ CanPost /\ StopClick
    \/ Elapse(FadeDuration)
    \/ Elapse(NotificationDuration)
    \/ NotificationTimers

InitNotify == InitPage /\ observed = {"toasts"}

\* setTimeout callbacks run once they are due, and time passes
SpecNotify ==
    /\ InitNotify
    /\ [][NextNotify]_vars
    /\ WF_vars(Elapse(FadeDuration))
    /\ WF_vars(NotificationTimers)

\* who opens the transport: every session event, on a page with either
\* version of video.js
NextConnect ==
    \/ Connect
    \/ TransportNext
    \/ VideoReconnectTimerFires
    \/ Tick(VideoReconnectDelay)

InitConnect ==
    /\ statusScript = "part_004"
    /\ videoScript \in {"video.js", "part_001"}
    /\ map2dCanvas = TRUE /\ map3dScene = TRUE /\ sensorPanel = TRUE
    /\ InitState
    /\ observed = {}

SpecConnect == InitConnect /\ [][NextConnect]_vars

\* leaving the page, online and offline, during and between gestures
NextUnload ==
    \/ Connect
    \/ Disconnect("io server disconnect")
    \/ VisibilityChange(TRUE)
    \/ \E s \in Samples : MovementMove(s)
    \/ MovementEnd
    \/ BeforeUnload
    \/ Reload
    \/ Tick(movementThrottleInterval)

SpecUnload == Init /\ [][NextUnload]_vars

\* the #notifications container under status updates and showNotification
PaneSamples ==
    { WithNotifications(StatusData(Num(304), Num(612), Num(455), Num(98)), ns) :
        ns \in {NoList, List(<<>>), List(<<"n1">>), List(<<"n1", "n2">>),
                List(<<"n2", "n1">>)} }

NextPane ==
    \/ Connect
    \/ Disconnect("io server disconnect")
    \/ VisibilityChange(TRUE)
    \/ CanPost /\ CalibrateClick
    \/ \E data \in PaneSamples : StatusUpdate(data)
    \/ Elapse(NotificationDuration)
    \/ NotificationTimers

InitPane ==
    /\ statusScript \in {"part_003", "part_004"}
    /\ videoScript = "video.js"
    /\ map2dCanvas = TRUE /\ map3dScene = TRUE /\ sensorPanel = TRUE
    /\ InitState
    /\ observed = {"toasts"}

SpecPane == InitPane /\ [][NextPane]_vars

----------------------------------------------------------------------------
(* Properties *)

ZeroMovement == JoystickMovement(0, 0)
CenterGimbal == GimbalControl(PanDefault, TiltDefault)
ControlEvents == {"joystick_movement", "gimbal_control", "calibrate_imu", "update_fps"}
NoControlEvent(evs) == \A i \in 1..Len(evs) : evs[i].ev \notin ControlEvents

\* C1: on every disconnect event the movement vector and the camera axes are
\* reset to zero in the same step.
C1_DisconnectForcesSafeState ==
    lastEvent = "disconnect" =>
        movementX = 0 /\ movementY = 0 /\ cameraX = 0 /\ cameraY = 0

\* C2: while isConnected is false no joystick_movement, gimbal_control,
\* calibrate_imu or update_fps event is emitted and none is held for delivery
\* after the connection is re-established.
C2_NoCommandWhileDisconnected ==
    ~isConnected => NoControlEvent(out) /\ NoControlEvent(sendBuffer)

\* C2 witness: a Stop command was attempted while disconnected.
C2_StopAttemptedOffline ==
    ~isConnected /\ lastEvent = "stop_click" /\ posted = <<NotConnected>>

\* C3: once the link has been lost and restored, nothing is emitted by the
\* connect event itself, every joystick_movement emitted for a movement sample
\* and every gimbal_control emitted for a camera sample is computed from that
\* very sample, and every other command carries a constant payload.
C3_FreshAfterReconnect ==
    [][link' = "restored" =>
        /\ lastEvent' = "connect" => out' = <<>>
        /\ \A s \in Samples :
              MovementMove(s) /\ out' # <<>> =>
                out' = <<JoystickMovement(Deadzone(AxisX(s)), Deadzone(AxisY(s)))>>
        /\ \A s \in Samples :
              CameraMove(s) /\ out' # <<>> =>
                out' = <<GimbalControl(Pan(AxisX(s)), Tilt(AxisY(s)))>>
        /\ lastEvent' \notin {"movement_move", "camera_move"} =>
              \A i \in 1..Len(out') :
                  /\ out'[i].ev = "joystick_movement" => out'[i] = ZeroMovement
                  /\ out'[i].ev = "gimbal_control" => out'[i] = CenterGimbal]_vars

\* C3 witness: after a reconnect a non-zero movement command has been emitted
\* for a sample.
C3_CommandAfterReconnect ==
    /\ link = "restored"
    /\ lastEvent = "movement_move"
    /\ out # <<>>
    /\ out[1] # ZeroMovement

\* C4: no two joystick_movement commands emitted for gesture samples are less
\* than the movement throttle interval (50 ms) apart.
C4_MovementRateLimited ==
    [][lastEvent' = "movement_move" /\ out' # <<>> =>
        DateNow - lastMoveCmd >= movementThrottleInterval]_vars

\* C5: a movement sample whose normalized components are both below 0.05 in
\* magnitude is sent as exactly {x: 0, y: 0}.
C5_DeadzoneZeroCommand ==
    [][\A s \in Samples :
        /\ MovementMove(s)
        /\ out' # <<>>
        /\ Abs(AxisX(s)) * 100 < 5 * Unit
        /\ Abs(AxisY(s)) * 100 < 5 * Unit
        => out' = <<ZeroMovement>>]_vars

\* C5 witness: a movement sample (every sample that maps to zero has a small
\* non-zero deflection) has been sent as the zero command.
C5_DeadzoneSampleSent ==
    /\ lastEvent = "movement_move"
    /\ out = <<ZeroMovement>>

\* C6: a movement gesture end while connected emits joystick_movement {0, 0}
\* in the same step, however recently the throttle let a command through.
C6_EndEmitsZero ==
    lastEvent = "movement_end" /\ isConnected => out = <<ZeroMovement>>

\* C6 witness: the gesture ended in the millisecond in which the throttle
\* accepted a sample, and the zero command went out.
C6_EndRightAfterMove ==
    /\ lastEvent = "movement_end"
    /\ isConnected
    /\ moveLastCall = DateNow
    /\ out = <<ZeroMovement>>

\* C7: once the auto-center delay has passed after a camera gesture end with
\* no new camera gesture, the camera axes have been reset to zero (and the
\* default pan/tilt has been sent).
C7_CameraAutoCenter ==
    cameraEnd >= 0 /\ now > cameraEnd + AutoCenterDelay =>
        cameraX = 0 /\ cameraY = 0

\* C8: reconnect_failed comes after exactly maxReconnectAttempts attempts and
\* leaves the session Failed, and a Failed session starts a new connection
\* attempt only when the operator reloads the page.
C8_BoundedReconnection ==
    [][/\ lastEvent' = "reconnect_failed" =>
            reconnectAttempts' = maxReconnectAttempts /\ conn' = "failed"
       /\ conn = "failed" /\ conn' # "failed" => lastEvent' = "load"]_vars

\* C9: a session is never Connected when the keepalive timeout (60 s) has
\* passed since the last inbound channel activity.
C9_KeepaliveTimeout ==
    isConnected => now - lastActivity < KeepaliveTimeout

\* C10 (as claimed): whenever a status refresh request completes, its result
\* is what the status display shows.
C10_RefreshAlwaysApplied ==
    [][lastEvent' \in {"fetch_ok", "fetch_error"} =>
        \E data \in StatusSamples :
            /\ statusShown'.cpu.text =
                  Round(IF data.cpu_usage.num THEN data.cpu_usage.v ELSE 0, 10)
            /\ statusShown'.temperature.text =
                  Round(IF data.temperature.num THEN data.temperature.v ELSE 0, 10)]_vars

\* C10 (amended): every connect event arms exactly one refresh timeout, due
\* StatusRefreshDelay later; requests are issued only by that timeout, one per
\* timeout and not before it is due; a request that succeeds is applied to the
\* status display and one that fails leaves the display unchanged.
C10_RefreshOncePerConnect ==
    [][/\ lastEvent' = "connect" =>
            /\ statusTimers' = Append(statusTimers, now + StatusRefreshDelay)
            /\ fetches' = fetches
       /\ lastEvent' = "status_timer" =>
            /\ statusTimers # <<>>
            /\ Head(statusTimers) <= now
            /\ statusTimers' = Tail(statusTimers)
            /\ fetches' = fetches + 1
       /\ lastEvent' \notin {"connect", "status_timer", "load"} =>
            /\ statusTimers' = statusTimers
            /\ fetches' <= fetches
       /\ lastEvent' = "fetch_ok" =>
            \E data \in StatusSamples :
                /\ statusShown'.cpu.text =
                      Round(IF data.cpu_usage.num THEN data.cpu_usage.v ELSE 0, 10)
                /\ statusShown'.temperature.text =
                      Round(IF data.temperature.num THEN data.temperature.v ELSE 0, 10)
       /\ lastEvent' = "fetch_error" => statusShown' = statusShown]_vars

\* C10 witness: the link was lost and restored, every refresh armed so far
\* has completed, and the last one was applied.
C10_RefreshAppliedAfterReconnect ==
    /\ link = "restored"
    /\ lastEvent = "fetch_ok"
    /\ statusTimers = <<>>
    /\ fetches = 0
    /\ statusShown # InitialStatus

\* the commands a step attempts: the buttons, a movement gesture end, and a
\* joystick sample its throttle lets through
ControlAttempt ==
    \/ lastEvent' \in {"calibrate_click", "stop_click", "center_click", "movement_end"}
    \/ lastEvent' = "movement_move" /\ moveLastCall' # moveLastCall
    \/ lastEvent' = "camera_move" /\ camLastCall' # camLastCall

\* C11: every control command attempted while disconnected (a button, a
\* joystick sample, a movement gesture end) is rejected locally, and an
\* advisory is posted to the operator in the same step.
C11_OfflineCommandAdvised ==
    [][~isConnected /\ ControlAttempt =>
        out' = <<>> /\ sendBuffer' = sendBuffer /\ posted' # <<>>]_vars

\* C12: once a video_error has arrived, and as long as only frames produced
\* before it arrive, the displayed frame is the no-signal placeholder and
\* isStreaming is false.
C12_ErrorOutlivesStaleFrames ==
    staleOnly => videoSrc = NoSignal /\ ~isStreaming

\* C13: when a window of exactly 1000 ms is closed by the 20th of 20 valid
\* frames that arrived evenly spaced over it, the fps displayed is 20 and
\* update_fps {fps: 20} is sent.
C13_TwentyFramesReportTwenty ==
    [][lastFpsUpdateTime' # lastFpsUpdateTime /\ evenFrames' = 20 =>
        fps' = 20 /\ out' = <<Ev("update_fps", 20, 0)>>]_vars

\* C13 witness: a window of 20 evenly spaced frames has just been reported.
C13_EvenWindowReported ==
    /\ evenFrames = 20
    /\ lastEvent = "video_frame"
    /\ lastFpsUpdateTime = now
    /\ fps = 20

\* C14: the gimbal_control command emitted for a camera sample with
\* normalized deflection (x, y) is pan = round(80 + 45 x), tilt =
\* round(40 - 40 y); angle 0 at the reference radius gives pan 125, tilt 40.
C14_GimbalMapping ==
    [][\A s \in CameraSamples :
        CameraMove(s) /\ out' # <<>> =>
            /\ out' = <<GimbalControl(Round(80 * Unit + 45 * AxisX(s), Unit),
                                      Round(40 * Unit - 40 * AxisY(s), Unit))>>
            /\ s = Sample(50, "E") => out' = <<GimbalControl(125, 40)>>]_vars

\* C14 witness: the camera joystick was pushed to angle 0 at full deflection
\* and the gimbal was sent to pan 125, tilt 40.
C14_FullRightSent ==
    /\ lastEvent = "camera_move"
    /\ cameraX = Unit /\ cameraY = 0
    /\ out = <<GimbalControl(125, 40)>>

InDeadzone(v) == Abs(v) * 100 < 5 * Unit

\* C16: the deadzone acts per axis on both channels: a movement command has
\* exactly the components below 0.05 zeroed, and a camera command has the
\* default pan when |x| < 0.05 and the default tilt when |y| < 0.05.
C16_DeadzonePerAxis ==
    [][/\ \A s \in Samples :
            MovementMove(s) /\ out' # <<>> =>
                out' = <<JoystickMovement(IF InDeadzone(AxisX(s)) THEN 0 ELSE AxisX(s),
                                          IF InDeadzone(AxisY(s)) THEN 0 ELSE AxisY(s))>>
       /\ \A s \in Samples :
            CameraMove(s) /\ out' # <<>> =>
                /\ InDeadzone(AxisX(s)) => out'[1].a = PanDefault
                /\ InDeadzone(AxisY(s)) => out'[1].b = TiltDefault]_vars

\* C17: every gimbal_control command emitted for a camera sample, whatever
\* the raw distance and the angle, has a pan within 35..125 and a tilt within
\* 0..85.
C17_GimbalWithinRange ==
    lastEvent = "camera_move" /\ out # <<>> =>
        out[1].a \in 35..125 /\ out[1].b \in 0..85

\* C17 witness: a camera command at the lower end of the pan range.
C17_PanAtLowerEnd ==
    /\ lastEvent = "camera_move"
    /\ out # <<>>
    /\ out[1].a = 35

C18_FailureAdvisedOnce ==
    lastEvent = "reconnect_failed" =>
        /\ Len(posted) = 1
        /\ posted[1].type = "danger"
        /\ ~isConnected

\* C18 witness: a session that was connected has lost its link and exhausted
\* its reconnection attempts.
C18_ReconnectGivenUp ==
    /\ lastEvent = "reconnect_failed"
    /\ link = "lost"
    /\ reconnectAttempts = maxReconnectAttempts
    /\ conn = "failed"

\* C19: every ping is answered in the same step by exactly one pong, a pong
\* is emitted by no other step, and none is held in the send buffer.
C19_PingAnsweredOnce ==
    [][/\ lastEvent' = "ping" => out' = <<Ev("pong", 0, 0)>>
       /\ \A i \in 1..Len(out') : out'[i].ev = "pong" => lastEvent' = "ping"
       /\ \A i \in 1..Len(sendBuffer') : sendBuffer'[i].ev # "pong"]_vars

\* C19 witness: a ping arrived on a restored link and was answered.
C19_PingOnRestoredLink ==
    /\ lastEvent = "ping"
    /\ link = "restored"
    /\ Len(out) = 1

\* C20: a video_frame whose payload is neither a string nor an object with a
\* data field does not raise out of the handler and leaves the displayed
\* frame as it was.
C20_MalformedFrameIgnored ==
    [][\A f \in Frames :
        VideoFrame(f) /\ f.kind \notin {"string", "object"} =>
            ~raised' /\ videoSrc' = videoSrc]_vars

\* C21: a malformed video_frame payload changes neither the streaming flag,
\* nor the FPS frame counter and window start, nor posts a notification.
C21_MalformedFrameNotApplied ==
    [][\A f \in Frames :
        VideoFrame(f) /\ f.kind \notin {"string", "object"} =>
            /\ isStreaming' = isStreaming
            /\ frameCount' = frameCount
            /\ lastFpsUpdateTime' = lastFpsUpdateTime
            /\ posted' = <<>>]_vars

\* C22: every valid video_frame puts its own payload in the single image
\* slot in the step that handles it, whatever was displayed before.
C22_LatestFrameDisplayed ==
    [][\A f \in Frames :
        VideoFrame(f) /\ f.kind \in {"string", "object"} =>
            videoSrc' = <<"data:image/jpeg;base64,", f.data>>]_vars

\* C22 witness: the second valid frame of a window is on display after the
\* first one.
C22_SecondFrameDisplayed ==
    /\ lastEvent = "video_frame"
    /\ frameCount = 2
    /\ videoSrc = <<"data:image/jpeg;base64,", "f2">>

\* C23: after a disconnect event the image shows the no-signal placeholder
\* and the streaming flag is false.
C23_DisconnectShowsNoSignal ==
    lastEvent = "disconnect" => videoSrc = NoSignal /\ ~isStreaming

\* C24: while the stream is on, the FPS window never stays open for more
\* than 1000 ms, whether or not frames arrive.
C24_WindowClosedOnTime ==
    isStreaming => now - lastFpsUpdateTime <= 1000

\* C25: on a page that has the component, a map_update with a 2D image and
\* no 3D points repaints the 2D canvas and starts loading the image, which is
\* drawn once decoded, and leaves the 3D points alone; a map_update with 3D
\* points and no 2D image replaces the 3D points and leaves the 2D canvas and
\* its pending images alone.
C25_MapComponentsIndependent ==
    [][/\ \A data \in MapSamples :
            MapUpdate(data) =>
                /\ data.map_2d \in {"m1", "m2"} /\ ~data.map_3d.present /\ map2dCanvas =>
                      /\ map2dShown' = <<"blank", "">>
                      /\ map2dLoading' = Append(map2dLoading, data.map_2d)
                      /\ map3dPoints' = map3dPoints
                /\ data.map_3d.present /\ data.map_2d = "" /\ map3dScene =>
                      /\ map3dPoints' =
                            [i \in 1..Len(data.map_3d.points) |->
                                <<data.map_3d.points[i][1], data.map_3d.points[i][3],
                                  -data.map_3d.points[i][2]>>]
                      /\ map2dShown' = map2dShown
                      /\ map2dLoading' = map2dLoading
       /\ \A i \in 1..MaxPending :
            ImageLoads(i) =>
                map2dShown' = <<"image", map2dLoading[i]>> /\ map3dPoints' = map3dPoints]_vars

\* C25 witness: the 3D points were replaced by an event without a 2D image
\* while the 2D canvas kept the image drawn before.
C25_PointsOverKeptImage ==
    /\ lastEvent = "map_update"
    /\ map2dShown = <<"image", "m1">>
    /\ map2dLoading = <<>>
    /\ Len(map3dPoints) = 2

\* C26: on every page with the 2D canvas, a map_update that carries both a
\* position and an orientation draws the vehicle indicator at that pose.
C26_PoseMovesIndicator ==
    [][\A data \in MapSamples :
        MapUpdate(data) /\ data.pose.position /\ data.pose.orientation /\ map2dCanvas =>
            /\ map2dRobot'.drawn
            /\ map2dRobot'.dx = data.pose.x * MapScale
            /\ map2dRobot'.dy = -(data.pose.y * MapScale)]_vars

\* the band of a value in tenths
Band(v, danger) ==
    IF v > danger * 10 THEN {"text-danger"}
    ELSE IF v > 600 THEN {"text-warning"}
    ELSE {}

\* C27: after a status update each of the CPU, memory and temperature
\* indicators whose field is a number carries exactly the marker of that
\* value's band, and no indicator ever carries both markers.
C27_IndicatorCarriesBand ==
    [][\A data \in BandSamples :
        StatusUpdate(data) =>
            /\ data.cpu_usage.num =>
                  statusShown'.cpu.class = Band(data.cpu_usage.v, 80)
            /\ data.memory_usage.num =>
                  statusShown'.memory.class = Band(data.memory_usage.v, 80)
            /\ data.temperature.num =>
                  statusShown'.temperature.class = Band(data.temperature.v, 70)
            /\ \A m \in {"cpu", "memory", "temperature"} :
                  ~({"text-warning", "text-danger"} \subseteq statusShown'[m].class)]_vars

\* C28: a status_update leaves the displayed value of every metric whose
\* field is missing or not a number as it was.
C28_LastKnownGoodKept ==
    [][\A data \in BandSamples :
        StatusUpdate(data) =>
            /\ ~data.cpu_usage.num => statusShown'.cpu.text = statusShown.cpu.text
            /\ ~data.memory_usage.num => statusShown'.memory.text = statusShown.memory.text
            /\ ~data.temperature.num =>
                  statusShown'.temperature.text = statusShown.temperature.text
            /\ ~data.fps.num => statusShown'.fps = statusShown.fps]_vars

\* whether every field of a group is a number
Complete(g) == g.present /\ \A i \in 1..3 : g.f[i].num

\* C29: on a page with the sensor panel, no sensor_data sample raises out of
\* the handler, and every group of it whose fields are all numbers is
\* displayed whatever the other groups hold.
C29_SensorGroupsIndependent ==
    [][\A data \in SensorSamples :
        SensorData(data) /\ sensorPanel =>
            /\ ~sensorRaised'
            /\ Complete(data.accelerometer) =>
                  sensorShown'.accel = [i \in 1..3 |-> ToFixed2(data.accelerometer.f[i].v)]
            /\ Complete(data.gyroscope) =>
                  sensorShown'.gyro = [i \in 1..3 |-> ToFixed2(data.gyroscope.f[i].v)]
            /\ Complete(data.orientation) =>
                  sensorShown'.orient = [i \in 1..3 |-> ToFixed2(data.orientation.f[i].v)]]_vars

\* whether a notification posted at time t is in the container
Displayed(t) == \E i \in 1..Len(toasts) : toasts[i].at = t

\* C30: every notification posted through showNotification leaves the
\* container eventually, by its two timers alone.
C30_NotificationRemoved ==
    \A t \in PostTimes : Displayed(t) ~> ~Displayed(t)

\* C30 witness: a notification is fading out after its display duration
\* while a later one is still shown.
C30_FadingBesideShown ==
    /\ Len(toasts) = 2
    /\ toasts[1].phase = "show"
    /\ toasts[2].phase = "fading"
    /\ now >= toasts[2].at + NotificationDuration

\* C31: the transport starts connecting only in the session manager's own
\* steps (the visibility handler of main.js, or the page load); no other
\* component's step starts a connection.
C31_OnlySessionManagerConnects ==
    [][conn' = "connecting" /\ conn # "connecting" =>
          lastEvent' \in {"visible", "load"}]_vars

\* C32: every map_update carrying map_3d on a page with the 3D scene leaves
\* exactly one mesh per point of that payload, in its order, whatever was
\* rendered before.
C32_PointsReplaced ==
    [][\A data \in MapSamples :
        MapUpdate(data) /\ data.map_3d.present /\ map3dScene =>
            /\ Len(map3dPoints') = Len(data.map_3d.points)
            /\ map3dPoints' = Meshes(data.map_3d.points)]_vars

\* C32 witness: a payload of one point has replaced a rendered set of two.
C32_SmallerCloudReplaced ==
    /\ lastEvent = "map_update"
    /\ prevCloud = 2
    /\ Len(map3dPoints) = 1

\* C33: a joystick_movement command that is not the zero command is emitted
\* only by the step that handles a movement sample, none is ever held in the
\* send buffer, and the end of a gesture while connected emits exactly the
\* zero command.
C33_NoTrailingMovement ==
    [][/\ \A i \in 1..Len(out') :
            out'[i].ev = "joystick_movement" /\ out'[i] # ZeroMovement =>
                lastEvent' = "movement_move"
       /\ \A i \in 1..Len(sendBuffer') :
            sendBuffer'[i].ev = "joystick_movement" => sendBuffer'[i] = ZeroMovement
       /\ lastEvent' = "movement_end" /\ isConnected => out' = <<ZeroMovement>>]_vars

\* C33 witness: a gesture ended inside the throttle window opened by its last
\* accepted sample, and the only command that went out is the zero command.
C33_EndInsideThrottleWindow ==
    /\ lastEvent = "movement_end"
    /\ isConnected
    /\ out = <<ZeroMovement>>
    /\ moveLastCall > 0
    /\ DateNow > moveLastCall
    /\ DateNow - moveLastCall < movementThrottleInterval

\* C34: the beforeunload step emits exactly one zero movement command while
\* connected, and while disconnected emits nothing and buffers nothing.
C34_UnloadStopsMotors ==
    [][lastEvent' = "beforeunload" =>
          /\ out' = IF isConnected THEN <<ZeroMovement>> ELSE <<>>
          /\ sendBuffer' = sendBuffer]_vars

\* C34 witness: the page is left in the middle of a gesture, connected.
C34_UnloadDuringGesture ==
    /\ lastEvent = "beforeunload"
    /\ out = <<ZeroMovement>>
    /\ movementX # 0

\* C35: each joystick container always has exactly one live instance, and
\* one movement sample or gesture end emits at most one command.
C35_OneJoystickPerContainer ==
    [][/\ movementJoysticks' = 1
       /\ cameraJoysticks' = 1
       /\ lastEvent' \in {"movement_move", "movement_end"} => Len(out') <= 1]_vars

\* C35 witness: the joysticks were re-created by an orientation timeout while
\* another one is pending.
C35_RecreatedWithTimerPending ==
    /\ lastEvent = "orientation_timer"
    /\ orientTimers # <<>>
    /\ movementJoysticks = 1
    /\ cameraJoysticks = 1

\* C36: a video_frame posts 'Video streaming started' if and only if
\* isStreaming was false when it arrived, and no other step posts it.
C36_StartedOncePerStream ==
    [][/\ \A f \in Frames :
            VideoFrame(f) =>
                posted' = IF isStreaming THEN <<>>
                          ELSE <<Note("Video streaming started", "success")>>
       /\ \A i \in 1..Len(posted') :
            posted'[i].message = "Video streaming started" =>
                lastEvent' = "video_frame"]_vars

\* C36 witness: the advisory was posted for the first frame after a
\* video_error.
C36_StartedAfterError ==
    /\ lastEvent = "video_frame"
    /\ staleOnly
    /\ posted = <<Note("Video streaming started", "success")>>

\* C37: a status_update with a null payload does not raise out of the
\* handler and changes neither the indicators nor the notification pane.
C37_NullStatusIgnored ==
    [][StatusUpdate(NullStatus) =>
          /\ ~statusRaised'
          /\ statusShown' = statusShown
          /\ toasts' = toasts]_vars

\* C38: a status_update without a notifications list, or with an empty one,
\* leaves the #notifications container as it is; one with a non-empty list
\* leaves in it exactly the entries of the list, in list order.
C38_PaneReplaced ==
    [][\A data \in PaneSamples :
        StatusUpdate(data) =>
            IF data.notifications.present /\ Len(data.notifications.list) > 0
            THEN /\ Len(toasts') = Len(data.notifications.list)
                 /\ \A i \in 1..Len(toasts') :
                       /\ toasts'[i].message = data.notifications.list[i]
                       /\ toasts'[i].phase = "persistent"
            ELSE toasts' = toasts]_vars

\* C38 witness: a list of two entries has replaced a notification of
\* showNotification whose 5000 ms had not elapsed.
C38_UnexpiredEntryReplaced ==
    /\ lastEvent = "status_update"
    /\ paneDropped >= 1
    /\ Len(toasts) = 2
    /\ toasts[1].message = "n2"

\* C39: reconnectAttempts is within 0..maxReconnectAttempts, and it is 0
\* whenever isConnected is true.
C39_AttemptCounterBounded ==
    /\ reconnectAttempts \in 0..maxReconnectAttempts
    /\ isConnected => reconnectAttempts = 0

\* C39 witness: the counter is back at 0 on a link restored by a
\* reconnection attempt.
C39_CounterResetOnReconnect ==
    /\ isConnected
    /\ conn = "connected"
    /\ link = "restored"
    /\ reconnectAttempts = 0
    /\ lastActivity > 0

====
